---- MODULE Spec2Model ----
(***************************************************************************)
(* Pixel Pitch: the Express server (pricing, checkout-session creation,    *)
(* pixel assignment, read endpoints), the Stripe gateway at its interface, *)
(* and the purchase page that drives the server after a Stripe redirect.   *)
(***************************************************************************)
EXTENDS Integers, Sequences, FiniteSets, TLC

(***************************************************************************)
(* JavaScript strings are sequences of one-character strings, so that      *)
(* String.prototype.toLowerCase is computed character by character.        *)
(***************************************************************************)
UpperCase == <<"A","B","C","D","E","F","G","H","I","J","K","L","M",
               "N","O","P","Q","R","S","T","U","V","W","X","Y","Z">>

LowerCase == <<"a","b","c","d","e","f","g","h","i","j","k","l","m",
               "n","o","p","q","r","s","t","u","v","w","x","y","z">>

toLowerChar(ch) ==
    IF \E i \in 1..Len(UpperCase) : UpperCase[i] = ch
    THEN LowerCase[CHOOSE i \in 1..Len(UpperCase) : UpperCase[i] = ch]
    ELSE ch

toLowerCase(s) == [i \in 1..Len(s) |-> toLowerChar(s[i])]

(* JavaScript values that can arrive as req.body.color. *)
Str(s)      == [t |-> "string", v |-> s]
Undefined   == [t |-> "undefined", v |-> <<>>]
Null        == [t |-> "null", v |-> <<>>]
NumberZero  == [t |-> "number", v |-> <<"0">>]
NumberSeven == [t |-> "number", v |-> <<"7">>]

(* !x *)
Falsy(x) ==
    \/ x.t \in {"undefined", "null"}
    \/ x.t = "string" /\ x.v = <<>>
    \/ x.t = "number" /\ x.v = <<"0">>

(* Values a price lookup can produce. *)
Num(n)            == [t |-> "number", n |-> n]
InheritedFunction == [t |-> "function", n |-> 0]
ObjectPrototype   == [t |-> "object", n |-> 0]

(***************************************************************************)
(* Colors                                                                  *)
(***************************************************************************)
Gold    == <<"#","f","f","d","7","0","0">>
Cyan    == <<"#","0","0","f","f","f","f">>
Magenta == <<"#","f","f","0","0","f","f">>
Red     == <<"#","f","f","0","0","0","0">>
Blank   == <<"#","f","f","f","f","f","f">>

(***************************************************************************)
(* Rare color pricing (server)                                             *)
(***************************************************************************)
RARE_PRICE_MAP == (Gold :> 500) @@ (Cyan :> 200) @@ (Magenta :> 200)

(* RARE_PRICE_MAP is an object literal: a lookup of a key that is not its  *)
(* own falls through to Object.prototype.                                  *)
ObjectPrototypeKeys ==
    { <<"c","o","n","s","t","r","u","c","t","o","r">>,
      <<"_","_","p","r","o","t","o","_","_">>,
      <<"t","o","S","t","r","i","n","g">>,
      <<"v","a","l","u","e","O","f">>,
      <<"h","a","s","O","w","n","P","r","o","p","e","r","t","y">> }

(* RARE_PRICE_MAP[c]; "undefined" when neither the map nor its prototype   *)
(* has the key.                                                            *)
MapLookup(map, c) ==
    IF c \in DOMAIN map THEN Num(map[c])
    ELSE IF c = <<"_","_","p","r","o","t","o","_","_">> THEN ObjectPrototype
    ELSE IF c \in ObjectPrototypeKeys THEN InheritedFunction
    ELSE [t |-> "undefined", n |-> 0]

(* x || 50 *)
OrFifty(x) == IF x.t = "undefined" \/ (x.t = "number" /\ x.n = 0) THEN Num(50) ELSE x

getPriceForColor(color) ==
    IF Falsy(color) \/ color.t # "string" THEN Num(50)
    ELSE OrFifty(MapLookup(RARE_PRICE_MAP, toLowerCase(color.v)))

(***************************************************************************)
(* Rare color pricing (purchase page, "mirror server-side pricing logic")  *)
(***************************************************************************)
ClientRARE_PRICE_MAP == (Gold :> 500) @@ (Cyan :> 200) @@ (Magenta :> 200)

ClientGetPriceForColor_CaseSensitive(color) ==
    IF Falsy(color) THEN Num(50)
    ELSE OrFifty(MapLookup(ClientRARE_PRICE_MAP, color.v))

ClientGetPriceForColor(color) ==
    IF Falsy(color) THEN Num(50)
    ELSE OrFifty(MapLookup(ClientRARE_PRICE_MAP, toLowerCase(color.v)))

(***************************************************************************)
(* Bounds of the model                                                     *)
(***************************************************************************)
canvasSize  == 2   \* side of the grid: canvasSize * canvasSize pixels
MaxSessions == 2   \* Stripe Checkout sessions created in a run
MaxReq      == 2   \* POST /api/pixel-pitch/assign requests in a run
MaxClock    == 1   \* Date.now() readings
MaxPrior    == 10  \* Assignments made before the observed run begins
MaxSeedRuns == 2   \* runs of the seed script
GRID_SIZE   == 2   \* side of the local pitch page's grid
MaxPolls    == 2   \* calls of loadData / loadPixels by one viewer

(* .limit(10) of the activity read *)
RecentLimit == 10

(* Colors the purchase page and other callers use in the full system. *)
Colors == {Red, Gold}

Sessions == 1..MaxSessions
ReqIds   == 1..MaxReq
SeedIds  == 1..MaxSeedRuns
PollIds  == 1..MaxPolls

VARIABLES
    pixels,          \* Pixel collection, in natural order; _id = index
    assignments,     \* Assignment collection, in insertion order
    clock,           \* Date.now() of the server
    reqs,            \* POST /assign handler instances, by request id
    stripeSessions,  \* Checkout sessions at the gateway; id = index
    checkout,        \* POST /create-checkout-session handler instance
    mounted,         \* the purchase page is loaded in the browser
    url,             \* window.location of the purchase page
    stage,           \* Pitch: stage
    result,          \* Pitch: result
    error,           \* Pitch: error
    selectedColor,   \* Pitch: selectedColor
    pageReq,         \* the assign request the mounted page awaits (0: none)
    allReq,          \* GET /api/pixel-pitch/all handler instance
    gridLog,         \* history: the grids that existed while allReq ran
    recentReq,       \* GET /api/pixel-pitch/recent-assignments handler instance
    canvases,        \* Canvas collection: the number of documents; _id = index
    uniquePosition,  \* the Pixel schema declares position unique
    seedRuns,        \* runs of pixelpitch_seed.js, by run id
    localMounted,    \* PitchPage (local pitch page) is loaded in the browser
    localUrl,        \* PitchPage: window.location, its three parameters
    localPixels,     \* PitchPage: pixels
    localStorage,    \* window.localStorage[LOCAL_STORAGE_KEY]
    localSelectedIndex,  \* PitchPage: selectedIndex (-1: null)
    localSelectedColor,  \* PitchPage: selectedColor
    localMessage,    \* PitchPage: message
    localApplied,    \* history: updates applied since the last navigation
    localNav,        \* history: how the page was last loaded
    viewer,          \* live canvas viewer (Home or SimpleCanvas): its state
    polls            \* live canvas viewer: the calls of loadData / loadPixels

dbVars       == <<pixels, assignments, clock>>
handlerVars  == <<reqs>>
gatewayVars  == <<stripeSessions>>
checkoutVars == <<checkout>>
pageVars     == <<mounted, url, stage, result, error, selectedColor,
                  pageReq>>
readVars     == <<allReq, gridLog, recentReq>>
seedVars     == <<canvases, uniquePosition, seedRuns>>
localVars    == <<localMounted, localUrl, localPixels, localStorage,
                  localSelectedIndex, localSelectedColor, localMessage,
                  localApplied, localNav>>
viewVars     == <<viewer, polls>>
vars == <<pixels, assignments, clock, reqs, stripeSessions, checkout,
          mounted, url, stage, result, error, selectedColor, pageReq,
          allReq, gridLog, recentReq, canvases, uniquePosition, seedRuns,
          localMounted, localUrl, localPixels, localStorage,
          localSelectedIndex, localSelectedColor, localMessage,
          localApplied, localNav, viewer, polls>>

(***************************************************************************)
(* The models the server loads: Pixel and Assignment. No model persists a  *)
(* payment session, so the set of PaymentSession records is empty.         *)
(***************************************************************************)
PaymentSessionRecords == {}

(***************************************************************************)
(* POST /api/pixel-pitch/create-checkout-session                           *)
(***************************************************************************)
IdleCheckout ==
    [pc |-> "idle", body |-> Undefined, from |-> "none",
     priceCents |-> Num(0), status |-> 0, session |-> 0]

(* The handler up to its await of stripe.checkout.sessions.create. *)
CheckoutReceive(body, from) ==
    /\ checkout.pc = "idle"
    /\ checkout' =
         IF Falsy(body) \/ body.t # "string"
         THEN [IdleCheckout EXCEPT !.pc = "done", !.body = body,
                                   !.from = from, !.status = 400]
         ELSE [IdleCheckout EXCEPT !.pc = "stripe", !.body = body,
                                   !.from = from,
                                   !.priceCents = getPriceForColor(body)]

(* The gateway creates the session: unit_amount must be a positive integer *)
(* number of cents.                                                        *)
StripeAccepts(unit_amount) == unit_amount.t = "number" /\ unit_amount.n > 0

StripeCreateSession ==
    /\ checkout.pc = "stripe"
    /\ StripeAccepts(checkout.priceCents)
    /\ Len(stripeSessions) < MaxSessions
    /\ stripeSessions' = Append(stripeSessions,
           [color |-> checkout.body.v, unit_amount |-> checkout.priceCents.n,
            status |-> "open"])
    /\ checkout' = [checkout EXCEPT !.pc = "done", !.status = 200,
                                    !.session = Len(stripeSessions) + 1]

(* stripe.checkout.sessions.create throws (timeout, rejection): catch. *)
StripeCreateFails ==
    /\ checkout.pc = "stripe"
    /\ checkout' = [checkout EXCEPT !.pc = "done", !.status = 500]
    /\ UNCHANGED stripeSessions

(***************************************************************************)
(* The success_url round trip: encodeURIComponent on the server,           *)
(* URLSearchParams.get on the purchase page.                               *)
(***************************************************************************)
encodeChar(ch) ==
    IF ch = "#" THEN <<"%","2","3">>
    ELSE IF ch = "%" THEN <<"%","2","5">>
    ELSE <<ch>>

RECURSIVE encodeURIComponent(_)
encodeURIComponent(s) ==
    IF s = <<>> THEN <<>>
    ELSE encodeChar(Head(s)) \o encodeURIComponent(Tail(s))

RECURSIVE searchParamsGet(_)
searchParamsGet(s) ==
    IF s = <<>> THEN <<>>
    ELSE IF Len(s) >= 3 /\ SubSeq(s, 1, 3) = <<"%","2","3">>
         THEN <<"#">> \o searchParamsGet(SubSeq(s, 4, Len(s)))
    ELSE IF Len(s) >= 3 /\ SubSeq(s, 1, 3) = <<"%","2","5">>
         THEN <<"%">> \o searchParamsGet(SubSeq(s, 4, Len(s)))
    ELSE <<Head(s)>> \o searchParamsGet(Tail(s))

(* window.location after the gateway's redirect to success_url of session s *)
SuccessUrl(s) ==
    [success |-> TRUE, canceled |-> FALSE,
     color |-> encodeURIComponent(stripeSessions[s].color), session |-> s]

(* a URL anyone can type: ?success=true&color=... *)
TypedSuccessUrl(c) ==
    [success |-> TRUE, canceled |-> FALSE,
     color |-> encodeURIComponent(c), session |-> 0]

CancelUrl == [success |-> FALSE, canceled |-> TRUE, color |-> <<>>, session |-> 0]
PlainUrl  == [success |-> FALSE, canceled |-> FALSE, color |-> <<>>, session |-> 0]

(***************************************************************************)
(* POST /api/pixel-pitch/assign                                            *)
(***************************************************************************)
(* Math.round(Math.sqrt(total)) *)
RoundSqrt(total) ==
    CHOOSE s \in 0..total :
        (2 * s - 1) * (2 * s - 1) <= 4 * total /\ 4 * total < (2 * s + 1) * (2 * s + 1)

(* Coordinates with the row and the column exchanged. *)
Coordinates_Transposed(position, total) ==
    [x |-> position \div RoundSqrt(total), y |-> position % RoundSqrt(total)]

(* side = Math.round(Math.sqrt(total)); x = position % side;               *)
(* y = Math.floor(position / side)                                         *)
Coordinates(position, total) ==
    [x |-> position % RoundSqrt(total), y |-> position \div RoundSqrt(total)]

NoBody == [color |-> <<>>, id |-> 0, position |-> 0, x |-> 0, y |-> 0]

IdleReq ==
    [pc |-> "idle", body |-> Undefined, session |-> 0, total |-> 0,
     randomIndex |-> 0, pixel |-> 0, status |-> 0, response |-> NoBody]

InFlight(r) == reqs[r].pc \in {"count", "find", "save", "create"}

FreeReq(r) ==
    /\ reqs[r].pc = "idle"
    /\ \A q \in ReqIds : q < r => reqs[q].pc # "idle"

(* The handler has responded: its locals are gone, the response stays. *)
Responded(q, status) ==
    [IdleReq EXCEPT !.pc = "done", !.body = q.body, !.session = q.session,
                    !.pixel = IF status = 200 THEN q.pixel ELSE 0,
                    !.status = status,
                    !.response =
                        IF status = 200
                        THEN [color |-> q.body.v, id |-> q.pixel,
                              position |-> pixels[q.pixel].position,
                              x |-> Coordinates(pixels[q.pixel].position, q.total).x,
                              y |-> Coordinates(pixels[q.pixel].position, q.total).y]
                        ELSE NoBody]

(* The request arrives: the handler runs to its first await. `session` is  *)
(* the Checkout session whose success_url produced the call (0: none); the *)
(* request itself carries only the color.                                  *)
AssignReceive(r, body, session) ==
    /\ FreeReq(r)
    /\ reqs' = [reqs EXCEPT ![r] =
         IF Falsy(body) \/ body.t # "string"
         THEN [IdleReq EXCEPT !.pc = "done", !.body = body,
                              !.session = session, !.status = 400]
         ELSE [IdleReq EXCEPT !.pc = "count", !.body = body,
                              !.session = session]]

(* A selection restricted to the cells that are still blank. *)
AssignCount_BlankOnly(r) ==
    /\ reqs[r].pc = "count"
    /\ LET total == Len(pixels)
           blank == {i \in 0..(total - 1) : pixels[i + 1].color = Blank}
       IN  IF blank = {}
           THEN reqs' = [reqs EXCEPT ![r] = Responded(@, 500)]
           ELSE \E randomIndex \in blank :
                  reqs' = [reqs EXCEPT ![r].pc = "find", ![r].total = total,
                                       ![r].randomIndex = randomIndex]
    /\ UNCHANGED dbVars

(* await Pixel.countDocuments(); Math.floor(Math.random() * total) *)
AssignCount(r) ==
    /\ reqs[r].pc = "count"
    /\ LET total == Len(pixels) IN
         IF total = 0
         THEN reqs' = [reqs EXCEPT ![r] = Responded(@, 500)]
         ELSE \E randomIndex \in 0..(total - 1) :
                reqs' = [reqs EXCEPT ![r].pc = "find", ![r].total = total,
                                     ![r].randomIndex = randomIndex]
    /\ UNCHANGED dbVars

(* await Pixel.findOne().skip(randomIndex) *)
AssignFind(r) ==
    /\ reqs[r].pc = "find"
    /\ reqs' = [reqs EXCEPT ![r] =
         IF reqs[r].randomIndex < Len(pixels)
         THEN [@ EXCEPT !.pc = "save", !.pixel = reqs[r].randomIndex + 1]
         ELSE Responded(@, 500)]
    /\ UNCHANGED dbVars

(* A save that also resets every other cell. *)
AssignSave_ResetOthers(r) ==
    /\ reqs[r].pc = "save"
    /\ pixels' = [i \in 1..Len(pixels) |->
                    [pixels[i] EXCEPT !.color =
                        IF i = reqs[r].pixel THEN reqs[r].body.v ELSE Blank]]
    /\ reqs' = [reqs EXCEPT ![r].pc = "create"]
    /\ UNCHANGED <<assignments, clock>>

(* pixel.color = color; await pixel.save() *)
AssignSave(r) ==
    /\ reqs[r].pc = "save"
    /\ pixels' = [pixels EXCEPT ![reqs[r].pixel].color = reqs[r].body.v]
    /\ reqs' = [reqs EXCEPT ![r].pc = "create"]
    /\ UNCHANGED <<assignments, clock>>

(* A ledger that keeps one entry per cell: a later assignment to the cell  *)
(* replaces the earlier entry.                                             *)
AssignCreate_Upsert(r) ==
    /\ reqs[r].pc = "create"
    /\ LET entry == [pixelId |-> reqs[r].pixel, color |-> reqs[r].body.v,
                     createdAt |-> clock, session |-> reqs[r].session]
           earlier == {i \in 1..Len(assignments) :
                          assignments[i].pixelId = reqs[r].pixel}
       IN  assignments' =
             IF earlier = {} THEN Append(assignments, entry)
             ELSE [assignments EXCEPT ![CHOOSE i \in earlier : TRUE] = entry]
    /\ reqs' = [reqs EXCEPT ![r] = Responded(@, 200)]
    /\ UNCHANGED <<pixels, clock>>

(* await Assignment.create({pixelId, color, position}); res.json(...) *)
AssignCreate(r) ==
    /\ reqs[r].pc = "create"
    /\ assignments' = Append(assignments,
         [pixelId |-> reqs[r].pixel, color |-> reqs[r].body.v,
          createdAt |-> clock, session |-> reqs[r].session])
    /\ reqs' = [reqs EXCEPT ![r] = Responded(@, 200)]
    /\ UNCHANGED <<pixels, clock>>

(* A storage operation rejects: catch, res.status(500) *)
AssignFails(r) ==
    /\ InFlight(r)
    /\ reqs' = [reqs EXCEPT ![r] = Responded(@, 500)]
    /\ UNCHANGED dbVars

(* Date.now() advances *)
Tick ==
    /\ clock < MaxClock
    /\ clock' = clock + 1
    /\ UNCHANGED <<pixels, assignments>>

(***************************************************************************)
(* The purchase page (Pitch)                                               *)
(***************************************************************************)
(* The page mounts at URL u: useState initial values, then the mount       *)
(* effect ("Detect return from Stripe"), which calls                       *)
(* assignPixelAfterPayment up to its fetch.                                *)
PageLoad(u) ==
    /\ mounted' = TRUE
    /\ url' = u
    /\ selectedColor' = Red
    /\ result' = "null"
    /\ error' = "null"
    /\ checkout' = IF checkout.from = "page"
                   THEN [checkout EXCEPT !.from = "gone"] ELSE checkout
    /\ LET returnedColor == searchParamsGet(u.color) IN
         IF u.success /\ returnedColor # <<>>
         THEN /\ stage' = "processing"
              /\ \E r \in ReqIds :
                    /\ AssignReceive(r, Str(returnedColor), u.session)
                    /\ pageReq' = r
         ELSE /\ stage' = "select"
              /\ pageReq' = 0
              /\ UNCHANGED reqs
    /\ UNCHANGED <<dbVars, gatewayVars>>
    /\ UNCHANGED <<readVars, seedVars, localVars, viewVars>>

(* The browser opens /pitch *)
OpenPitch == PageLoad(PlainUrl)

(* The gateway redirects a paid session to its success_url; the same URL   *)
(* is loaded again by a reload or from the history.                        *)
ReturnFromStripe(s) ==
    /\ s \in 1..Len(stripeSessions)
    /\ stripeSessions[s].status = "complete"
    /\ PageLoad(SuccessUrl(s))

ReturnCanceled(s) ==
    /\ s \in 1..Len(stripeSessions)
    /\ stripeSessions[s].status = "open"
    /\ PageLoad(CancelUrl)

(* Anyone opens /pitch?success=true&color=c *)
OpenTypedSuccessUrl(c) == PageLoad(TypedSuccessUrl(c))

(* assignPixelAfterPayment after its fetch: the response body is parsed *)
PageAssignResponse ==
    /\ mounted
    /\ pageReq # 0
    /\ reqs[pageReq].pc = "done"
    /\ result' = IF reqs[pageReq].status = 200 THEN "pixel" ELSE "error"
    /\ stage' = "done"
    /\ pageReq' = 0
    /\ UNCHANGED <<dbVars, handlerVars, gatewayVars, checkoutVars,
                   mounted, url, error, selectedColor>>
    /\ UNCHANGED <<readVars, seedVars, localVars, viewVars>>

(* What assignPixelAfterPayment's catch receives: fetch rejected, or       *)
(* safeJsonParse threw on a body that is not JSON.                         *)
FetchFailures == {"fetch failed", "non-JSON response"}

(* assignPixelAfterPayment's catch: result = { error: err.message },       *)
(* stage "done". The handler instance goes on without its caller.          *)
PageAssignFails(failure) ==
    /\ mounted
    /\ pageReq # 0
    /\ result' = failure
    /\ stage' = "done"
    /\ pageReq' = 0
    /\ UNCHANGED <<dbVars, handlerVars, gatewayVars, checkoutVars,
                   mounted, url, error, selectedColor>>
    /\ UNCHANGED <<readVars, seedVars, localVars, viewVars>>

(* A reset that leaves result as it is. *)
resetForAnotherPurchase_KeepsResult ==
    /\ mounted
    /\ stage = "done"
    /\ stage' = "select"
    /\ error' = "null"
    /\ url' = PlainUrl
    /\ UNCHANGED <<dbVars, handlerVars, gatewayVars, checkoutVars,
                   mounted, result, selectedColor, pageReq>>
    /\ UNCHANGED <<readVars, seedVars, localVars, viewVars>>

resetForAnotherPurchase ==
    /\ mounted
    /\ stage = "done"
    /\ stage' = "select"
    /\ error' = "null"
    /\ result' = "null"
    /\ url' = PlainUrl
    /\ UNCHANGED <<dbVars, handlerVars, gatewayVars, checkoutVars,
                   mounted, selectedColor, pageReq>>
    /\ UNCHANGED <<readVars, seedVars, localVars, viewVars>>

SelectColor(c) ==
    /\ mounted
    /\ stage = "select"
    /\ selectedColor' = c
    /\ UNCHANGED <<dbVars, handlerVars, gatewayVars, checkoutVars,
                   mounted, url, stage, result, error, pageReq>>
    /\ UNCHANGED <<readVars, seedVars, localVars, viewVars>>

Continue ==
    /\ mounted
    /\ stage = "select"
    /\ stage' = "pay"
    /\ UNCHANGED <<dbVars, handlerVars, gatewayVars, checkoutVars,
                   mounted, url, result, error, selectedColor, pageReq>>
    /\ UNCHANGED <<readVars, seedVars, localVars, viewVars>>

Back ==
    /\ mounted
    /\ stage = "pay"
    /\ checkout.from # "page"
    /\ stage' = "select"
    /\ UNCHANGED <<dbVars, handlerVars, gatewayVars, checkoutVars,
                   mounted, url, result, error, selectedColor, pageReq>>
    /\ UNCHANGED <<readVars, seedVars, localVars, viewVars>>

(* handleCheckout up to its fetch; the button is disabled while            *)
(* isRedirecting.                                                          *)
handleCheckout ==
    /\ mounted
    /\ stage = "pay"
    /\ error' = "null"
    /\ CheckoutReceive(Str(selectedColor), "page")
    /\ UNCHANGED <<dbVars, handlerVars, gatewayVars,
                   mounted, url, stage, result, selectedColor, pageReq>>
    /\ UNCHANGED <<readVars, seedVars, localVars, viewVars>>

(* handleCheckout after its fetch: window.location.href = data.url, or the *)
(* error is shown.                                                         *)
PageCheckoutResponse ==
    /\ checkout.pc = "done"
    /\ checkout.from = "page"
    /\ mounted' = IF checkout.status = 200 THEN FALSE ELSE mounted
    /\ error' = IF checkout.status = 200 THEN error ELSE "checkout error"
    /\ checkout' = IdleCheckout
    /\ UNCHANGED <<dbVars, handlerVars, gatewayVars,
                   url, stage, result, selectedColor, pageReq>>
    /\ UNCHANGED <<readVars, seedVars, localVars, viewVars>>

(* A caller other than the page posts to create-checkout-session. *)
DirectCheckout(body) ==
    /\ CheckoutReceive(body, "direct")
    /\ UNCHANGED <<dbVars, handlerVars, gatewayVars, pageVars>>
    /\ UNCHANGED <<readVars, seedVars, localVars, viewVars>>

(* The response reaches a caller other than the mounted page. *)
CheckoutResponseDropped ==
    /\ checkout.pc = "done"
    /\ checkout.from # "page"
    /\ checkout' = IdleCheckout
    /\ UNCHANGED <<dbVars, handlerVars, gatewayVars, pageVars>>
    /\ UNCHANGED <<readVars, seedVars, localVars, viewVars>>

(* A caller other than the page posts to assign. *)
DirectAssign(body) ==
    /\ \E r \in ReqIds : AssignReceive(r, body, 0)
    /\ UNCHANGED <<dbVars, gatewayVars, checkoutVars, pageVars>>
    /\ UNCHANGED <<readVars, seedVars, localVars, viewVars>>

(***************************************************************************)
(* The gateway                                                             *)
(***************************************************************************)
GatewayCreates ==
    /\ StripeCreateSession
    /\ UNCHANGED <<dbVars, handlerVars, pageVars>>
    /\ UNCHANGED <<readVars, seedVars, localVars, viewVars>>

GatewayFails ==
    /\ StripeCreateFails
    /\ UNCHANGED <<dbVars, handlerVars, pageVars>>
    /\ UNCHANGED <<readVars, seedVars, localVars, viewVars>>

(* The customer pays on the gateway's hosted page. *)
StripePay(s) ==
    /\ s \in 1..Len(stripeSessions)
    /\ stripeSessions[s].status = "open"
    /\ stripeSessions' = [stripeSessions EXCEPT ![s].status = "complete"]
    /\ UNCHANGED <<dbVars, handlerVars, checkoutVars, pageVars>>
    /\ UNCHANGED <<readVars, seedVars, localVars, viewVars>>

(***************************************************************************)
(* GET /api/pixel-pitch/all                                                *)
(***************************************************************************)
(* The document with _id k as the cursor returns it (lean) *)
PixelDoc(k) ==
    [id |-> k, position |-> pixels[k].position, color |-> pixels[k].color]

(* The grid as a set of (position, color) pairs *)
GridState(px) == {<<px[k].position, px[k].color>> : k \in 1..Len(px)}

(* sort({ position: 1 }): insertion into a sequence that is sorted *)
RECURSIVE InsertByPosition(_, _)
InsertByPosition(doc, sorted) ==
    IF sorted = <<>> THEN <<doc>>
    ELSE IF doc.position < Head(sorted).position THEN <<doc>> \o sorted
    ELSE <<Head(sorted)>> \o InsertByPosition(doc, Tail(sorted))

RECURSIVE SortByPosition(_)
SortByPosition(docs) ==
    IF docs = <<>> THEN <<>>
    ELSE InsertByPosition(docs[Len(docs)], SortByPosition(SubSeq(docs, 1, Len(docs) - 1)))

IdleAll == [pc |-> "idle", docs |-> <<>>, status |-> 0]

(* The request arrives: Pixel.find() is issued. *)
AllReceive ==
    /\ allReq.pc = "idle"
    /\ allReq' = [IdleAll EXCEPT !.pc = "scan"]
    /\ gridLog' = {GridState(pixels)}
    /\ UNCHANGED <<dbVars, handlerVars, gatewayVars, checkoutVars, pageVars,
                   recentReq, seedVars, localVars, viewVars>>

(* The cursor of Pixel.find() reads the next document of the collection;   *)
(* the query runs without a session or a snapshot read concern, so writes  *)
(* of other operations commit between two documents.                       *)
AllScan ==
    /\ allReq.pc = "scan"
    /\ Len(allReq.docs) < Len(pixels)
    /\ allReq' = [allReq EXCEPT !.docs = Append(@, PixelDoc(Len(@) + 1))]
    /\ UNCHANGED <<dbVars, handlerVars, gatewayVars, checkoutVars, pageVars,
                   gridLog, recentReq, seedVars, localVars, viewVars>>

(* A response in the order the cursor returned the documents. *)
AllRespond_Unsorted ==
    /\ allReq.pc = "scan"
    /\ Len(allReq.docs) >= Len(pixels)
    /\ allReq' = [allReq EXCEPT !.pc = "done", !.status = 200]
    /\ UNCHANGED <<dbVars, handlerVars, gatewayVars, checkoutVars, pageVars,
                   gridLog, recentReq, seedVars, localVars, viewVars>>

(* The cursor is exhausted: .sort({ position: 1 }), res.json(pixels) *)
AllRespond ==
    /\ allReq.pc = "scan"
    /\ Len(allReq.docs) >= Len(pixels)
    /\ allReq' = [allReq EXCEPT !.pc = "done", !.status = 200,
                                !.docs = SortByPosition(@)]
    /\ UNCHANGED <<dbVars, handlerVars, gatewayVars, checkoutVars, pageVars,
                   gridLog, recentReq, seedVars, localVars, viewVars>>

(* Pixel.find() rejects: catch, res.status(500) *)
AllFails ==
    /\ allReq.pc = "scan"
    /\ allReq' = [IdleAll EXCEPT !.pc = "done", !.status = 500]
    /\ UNCHANGED <<dbVars, handlerVars, gatewayVars, checkoutVars, pageVars,
                   gridLog, recentReq, seedVars, localVars, viewVars>>

(* The response has reached its caller. *)
AllReturn ==
    /\ allReq.pc = "done"
    /\ allReq' = IdleAll
    /\ gridLog' = {}
    /\ UNCHANGED <<dbVars, handlerVars, gatewayVars, checkoutVars, pageVars,
                   recentReq, seedVars, localVars, viewVars>>

(***************************************************************************)
(* GET /api/pixel-pitch/recent-assignments                                 *)
(***************************************************************************)
(* The Assignment with _id i as the query returns it (lean) *)
AssignmentDoc(i) ==
    [id |-> i, pixelId |-> assignments[i].pixelId,
     color |-> assignments[i].color, createdAt |-> assignments[i].createdAt]

(* sort({ createdAt: -1 }): insertion into a sequence that is sorted. The  *)
(* order of documents with equal createdAt is not specified: tieFirst      *)
(* places the document before or after its equals.                         *)
RECURSIVE InsertByCreatedAtDesc(_, _, _)
InsertByCreatedAtDesc(doc, sorted, tieFirst) ==
    IF sorted = <<>> THEN <<doc>>
    ELSE IF \/ doc.createdAt > Head(sorted).createdAt
            \/ (tieFirst /\ doc.createdAt = Head(sorted).createdAt)
         THEN <<doc>> \o sorted
    ELSE <<Head(sorted)>> \o InsertByCreatedAtDesc(doc, Tail(sorted), tieFirst)

RECURSIVE SortByCreatedAtDesc(_, _)
SortByCreatedAtDesc(docs, tieFirst) ==
    IF docs = <<>> THEN <<>>
    ELSE InsertByCreatedAtDesc(docs[Len(docs)],
             SortByCreatedAtDesc(SubSeq(docs, 1, Len(docs) - 1), tieFirst),
             tieFirst)

(* .limit(n) *)
Limit(docs, n) == IF Len(docs) <= n THEN docs ELSE SubSeq(docs, 1, n)

IdleRecent == [pc |-> "idle", docs |-> <<>>, status |-> 0, at |-> 0]

(* The request arrives: Assignment.find({}) is issued. *)
RecentReceive ==
    /\ recentReq.pc = "idle"
    /\ recentReq' = [IdleRecent EXCEPT !.pc = "find"]
    /\ UNCHANGED <<dbVars, handlerVars, gatewayVars, checkoutVars, pageVars,
                   allReq, gridLog, seedVars, localVars, viewVars>>

(* A query that returns the oldest Assignments first. *)
RecentFind_OldestFirst ==
    /\ recentReq.pc = "find"
    /\ \E tieFirst \in BOOLEAN :
          recentReq' = [recentReq EXCEPT
              !.pc = "done", !.status = 200, !.at = Len(assignments),
              !.docs = LET desc == SortByCreatedAtDesc(
                                       [i \in 1..Len(assignments) |-> AssignmentDoc(i)],
                                       tieFirst)
                       IN  Limit([k \in 1..Len(desc) |-> desc[Len(desc) + 1 - k]],
                                 RecentLimit)]
    /\ UNCHANGED <<dbVars, handlerVars, gatewayVars, checkoutVars, pageVars,
                   allReq, gridLog, seedVars, localVars, viewVars>>

(* A query that also deletes the Assignments it does not return. *)
RecentFind_Pruning ==
    /\ recentReq.pc = "find"
    /\ \E tieFirst \in BOOLEAN :
          recentReq' = [recentReq EXCEPT
              !.pc = "done", !.status = 200, !.at = Len(assignments),
              !.docs = Limit(SortByCreatedAtDesc(
                                 [i \in 1..Len(assignments) |-> AssignmentDoc(i)],
                                 tieFirst), RecentLimit)]
    /\ assignments' = Limit(assignments, RecentLimit)
    /\ UNCHANGED <<pixels, clock, handlerVars, gatewayVars, checkoutVars,
                   pageVars, allReq, gridLog, seedVars, localVars, viewVars>>

(* Assignment.find({}).sort({ createdAt: -1 }).limit(10).lean();           *)
(* res.json(assignments). `at` records the length of the ledger when the   *)
(* query ran.                                                              *)
RecentFind ==
    /\ recentReq.pc = "find"
    /\ \E tieFirst \in BOOLEAN :
          recentReq' = [recentReq EXCEPT
              !.pc = "done", !.status = 200, !.at = Len(assignments),
              !.docs = Limit(SortByCreatedAtDesc(
                                 [i \in 1..Len(assignments) |-> AssignmentDoc(i)],
                                 tieFirst), RecentLimit)]
    /\ UNCHANGED <<dbVars, handlerVars, gatewayVars, checkoutVars, pageVars,
                   allReq, gridLog, seedVars, localVars, viewVars>>

(* Assignment.find rejects: catch, res.status(500) *)
RecentFails ==
    /\ recentReq.pc = "find"
    /\ recentReq' = [IdleRecent EXCEPT !.pc = "done", !.status = 500]
    /\ UNCHANGED <<dbVars, handlerVars, gatewayVars, checkoutVars, pageVars,
                   allReq, gridLog, seedVars, localVars, viewVars>>

(* The response has reached its caller. *)
RecentReturn ==
    /\ recentReq.pc = "done"
    /\ recentReq' = IdleRecent
    /\ UNCHANGED <<dbVars, handlerVars, gatewayVars, checkoutVars, pageVars,
                   allReq, gridLog, seedVars, localVars, viewVars>>

(***************************************************************************)
(* pixelpitch_seed.js: run(). The models it loads (./models/pixel,         *)
(* ./models/canvas) are not part of the sources: whether the Pixel schema  *)
(* declares position unique is left open (uniquePosition).                 *)
(***************************************************************************)
IdleSeed == [pc |-> "idle", canvas |-> 0, exit |-> 0]

SeedInFlight(s) ==
    seedRuns[s].pc \in {"connect", "findCanvas", "createCanvas", "count", "insert"}

(* process.exit(code) *)
Exited(q, code) == [q EXCEPT !.pc = "done", !.exit = code]

(* node pixelpitch_seed.js: run() up to await mongoose.connect *)
SeedStart(s) ==
    /\ seedRuns[s].pc = "idle"
    /\ \A q \in SeedIds : q < s => seedRuns[q].pc # "idle"
    /\ seedRuns' = [seedRuns EXCEPT ![s].pc = "connect"]
    /\ UNCHANGED <<pixels, canvases>>

(* await mongoose.connect(...) *)
SeedConnect(s) ==
    /\ seedRuns[s].pc = "connect"
    /\ seedRuns' = [seedRuns EXCEPT ![s].pc = "findCanvas"]
    /\ UNCHANGED <<pixels, canvases>>

(* let canvas = await Canvas.findOne(); if (!canvas) ... *)
SeedFindCanvas(s) ==
    /\ seedRuns[s].pc = "findCanvas"
    /\ seedRuns' = [seedRuns EXCEPT ![s] =
         IF canvases = 0
         THEN [@ EXCEPT !.pc = "createCanvas"]
         ELSE [@ EXCEPT !.pc = "count", !.canvas = 1]]
    /\ UNCHANGED <<pixels, canvases>>

(* canvas = await Canvas.create({}) *)
SeedCreateCanvas(s) ==
    /\ seedRuns[s].pc = "createCanvas"
    /\ canvases' = canvases + 1
    /\ seedRuns' = [seedRuns EXCEPT ![s].pc = "count", ![s].canvas = canvases + 1]
    /\ UNCHANGED pixels

(* const existing = await Pixel.countDocuments({ canvas: canvas._id });    *)
(* if (existing > 0) process.exit(0)                                       *)
SeedCount(s) ==
    /\ seedRuns[s].pc = "count"
    /\ LET existing == Cardinality({k \in 1..Len(pixels) :
                                       pixels[k].canvas = seedRuns[s].canvas})
       IN  seedRuns' = [seedRuns EXCEPT ![s] =
             IF existing > 0 THEN Exited(@, 0) ELSE [@ EXCEPT !.pc = "insert"]]
    /\ UNCHANGED <<pixels, canvases>>

(* The documents the loop builds: for (let pos = 0; pos < total; pos++) *)
SeedDocs(canvas) ==
    [k \in 1..(canvasSize * canvasSize) |->
        [position |-> k - 1, color |-> Blank, canvas |-> canvas]]

(* await Pixel.insertMany(docs); process.exit(0). With a unique position   *)
(* the first document that repeats a position is rejected (ordered insert) *)
(* and the catch exits with 1.                                             *)
SeedInsert(s) ==
    /\ seedRuns[s].pc = "insert"
    /\ LET docs == SeedDocs(seedRuns[s].canvas)
           duplicate == \E k \in 1..Len(pixels) : pixels[k].position = docs[1].position
       IN  IF uniquePosition /\ duplicate
           THEN /\ seedRuns' = [seedRuns EXCEPT ![s] = Exited(@, 1)]
                /\ UNCHANGED pixels
           ELSE /\ pixels' = pixels \o docs
                /\ seedRuns' = [seedRuns EXCEPT ![s] = Exited(@, 0)]
    /\ UNCHANGED canvases

(* An awaited operation rejects: catch, process.exit(1) *)
SeedFails(s) ==
    /\ SeedInFlight(s)
    /\ seedRuns' = [seedRuns EXCEPT ![s] = Exited(@, 1)]
    /\ UNCHANGED <<pixels, canvases>>

SeedStep(s) ==
    /\ \/ SeedStart(s)
       \/ SeedConnect(s)
       \/ SeedFindCanvas(s)
       \/ SeedCreateCanvas(s)
       \/ SeedCount(s)
       \/ SeedInsert(s)
       \/ SeedFails(s)
    /\ UNCHANGED <<assignments, clock, uniquePosition, handlerVars, gatewayVars,
                   checkoutVars, pageVars, readVars, localVars, viewVars>>

(***************************************************************************)
(* The local pitch page (PitchPage): a grid kept in the browser, updated   *)
(* from the parameters of the URL Stripe redirects to.                     *)
(***************************************************************************)
Digits == <<"0","1","2","3","4","5","6","7","8","9">>

IsDigit(ch) == \E i \in 1..Len(Digits) : Digits[i] = ch

DigitValue(ch) == (CHOOSE i \in 1..Len(Digits) : Digits[i] = ch) - 1

(* String(n) for a non-negative integer *)
RECURSIVE NumberToString(_)
NumberToString(n) ==
    IF n < 10 THEN <<Digits[n + 1]>>
    ELSE NumberToString(n \div 10) \o <<Digits[(n % 10) + 1]>>

NaN == [t |-> "NaN", n |-> 0]

RECURSIVE SkipWhiteSpace(_)
SkipWhiteSpace(s) ==
    IF s # <<>> /\ Head(s) = " " THEN SkipWhiteSpace(Tail(s)) ELSE s

(* the value of the longest prefix of digits, after acc *)
RECURSIVE ParseDigits(_, _)
ParseDigits(s, acc) ==
    IF s = <<>> \/ ~IsDigit(Head(s)) THEN acc
    ELSE ParseDigits(Tail(s), 10 * acc + DigitValue(Head(s)))

(* parseInt(s, 10): leading white space, a sign, the longest prefix of     *)
(* digits; NaN when there is no digit.                                     *)
parseInt(s) ==
    LET trimmed  == SkipWhiteSpace(s)
        signed   == trimmed # <<>> /\ Head(trimmed) \in {"+", "-"}
        unsigned == IF signed THEN Tail(trimmed) ELSE trimmed
    IN  IF unsigned = <<>> \/ ~IsDigit(Head(unsigned)) THEN NaN
        ELSE IF signed /\ Head(trimmed) = "-"
             THEN Num(0 - ParseDigits(unsigned, 0))
             ELSE Num(ParseDigits(unsigned, 0))

StatusSuccess   == <<"s","u","c","c","e","s","s">>
StatusCancelled == <<"c","a","n","c","e","l","l","e","d">>

(* The query of /pitch: each parameter is absent (Null) or a string as it  *)
(* stands in the URL.                                                      *)
LocalPlainUrl == [status |-> Null, pixelIndex |-> Null, color |-> Null]

(* success_url of pages/api/create-checkout-session *)
LocalSuccessUrl(pixelIndex, color) ==
    [status |-> Str(StatusSuccess),
     pixelIndex |-> Str(encodeURIComponent(NumberToString(pixelIndex))),
     color |-> Str(encodeURIComponent(color))]

(* cancel_url of pages/api/create-checkout-session *)
LocalCancelUrl == [LocalPlainUrl EXCEPT !.status = Str(StatusCancelled)]

(* url.searchParams.get(name) *)
LocalParam(v) == IF v.t = "null" THEN Null ELSE Str(searchParamsGet(v.v))

(* createInitialPixels(): { color: null } for every index *)
createInitialPixels == [i \in 0..(GRID_SIZE * GRID_SIZE - 1) |-> Null]

NoItem == [t |-> "null", v |-> <<>>]

(* Array.isArray(parsed) && parsed.length === GRID_SIZE * GRID_SIZE *)
Restorable(raw) ==
    /\ raw # NoItem
    /\ Cardinality(DOMAIN raw) = GRID_SIZE * GRID_SIZE

(* const next = [...prev]; next[idx] = { color: colorParam } *)
SetIndex(prev, idx, color) ==
    [k \in (DOMAIN prev) \cup {idx} |-> IF k = idx THEN Str(color) ELSE prev[k]]

(* !Number.isNaN(idx) && idx >= 0 && idx < GRID_SIZE * GRID_SIZE *)
IndexInRange(idx) ==
    /\ idx.t = "number"
    /\ idx.n >= 0
    /\ idx.n < GRID_SIZE * GRID_SIZE

(* A page that leaves the URL as it found it. *)
CleanedUrl_Unchanged(u) == u

(* url.searchParams.delete("status" / "pixelIndex" / "color");             *)
(* window.history.replaceState({}, "", url.toString())                     *)
CleanedUrl(u) ==
    [u EXCEPT !.status = Null, !.pixelIndex = Null, !.color = Null]

(* The page mounts at URL u: useState initial values, then the three       *)
(* effects in order (restore from localStorage, save, apply the redirect), *)
(* then the render with the queued setPixels calls applied and effect 2    *)
(* saving the result. The try blocks of effects 1 and 2 are taken to       *)
(* succeed; their catch blocks only log.                                   *)
LocalMount(u, nav) ==
    LET restored        == IF Restorable(localStorage)
                           THEN localStorage ELSE createInitialPixels
        status          == LocalParam(u.status)
        pixelIndexParam == LocalParam(u.pixelIndex)
        colorParam      == LocalParam(u.color)
        handled         == /\ status = Str(StatusSuccess)
                           /\ ~Falsy(pixelIndexParam)
                           /\ ~Falsy(colorParam)
        idx             == parseInt(pixelIndexParam.v)
        applies         == handled /\ IndexInRange(idx)
    IN  /\ localMounted' = TRUE
        /\ localPixels' = IF applies
                          THEN SetIndex(restored, idx.n, colorParam.v)
                          ELSE restored
        /\ localStorage' = localPixels'
        /\ localSelectedIndex' = IF applies THEN idx.n ELSE -1
        /\ localSelectedColor' = IF applies THEN colorParam.v ELSE Red
        /\ localMessage' = IF applies THEN "saved" ELSE "null"
        /\ localUrl' = IF handled THEN CleanedUrl(u) ELSE u
        /\ localApplied' = (IF nav = "reload" THEN localApplied ELSE 0)
                              + (IF applies THEN 1 ELSE 0)
        /\ localNav' = nav
        /\ UNCHANGED <<dbVars, handlerVars, gatewayVars, checkoutVars, pageVars,
                       readVars, seedVars, viewVars>>

(* The browser arrives at /pitch with URL u: Stripe's redirect to          *)
(* success_url or cancel_url, a link, or a URL someone typed.              *)
LocalOpen(u) == LocalMount(u, "open")

(* The browser reloads the page at the URL it shows. *)
LocalReload ==
    /\ localMounted
    /\ LocalMount(localUrl, "reload")

handlePixelClick(index) ==
    /\ localMounted
    /\ localSelectedIndex' = index
    /\ localMessage' = "null"
    /\ UNCHANGED <<dbVars, handlerVars, gatewayVars, checkoutVars, pageVars,
                   readVars, seedVars, viewVars, localMounted, localUrl, localPixels,
                   localStorage, localSelectedColor, localApplied, localNav>>

handleColorChange(c) ==
    /\ localMounted
    /\ localSelectedColor' = c
    /\ UNCHANGED <<dbVars, handlerVars, gatewayVars, checkoutVars, pageVars,
                   readVars, seedVars, viewVars, localMounted, localUrl, localPixels,
                   localStorage, localSelectedIndex, localMessage,
                   localApplied, localNav>>

(* handlePreviewColor, then effect 2 saving the changed pixels *)
handlePreviewColor ==
    /\ localMounted
    /\ IF localSelectedIndex = -1
       THEN /\ localMessage' = "select first"
            /\ UNCHANGED <<localPixels, localStorage>>
       ELSE /\ localPixels' = SetIndex(localPixels, localSelectedIndex,
                                       localSelectedColor)
            /\ localStorage' = localPixels'
            /\ localMessage' = "applied locally"
    /\ UNCHANGED <<dbVars, handlerVars, gatewayVars, checkoutVars, pageVars,
                   readVars, seedVars, viewVars, localMounted, localUrl,
                   localSelectedIndex, localSelectedColor, localApplied,
                   localNav>>

(***************************************************************************)
(* The live canvas viewers: Home (loadData: /all and /recent-assignments   *)
(* together) and SimpleCanvas (loadPixels: /all). Both call their loader   *)
(* on mount and then from setInterval every 5 seconds, whether or not an   *)
(* earlier call has returned. viewer.isMounted is Home's isMounted and the *)
(* negation of SimpleCanvas's cancelled; viewer.loading is Home's loading  *)
(* and SimpleCanvas's firstLoad.                                           *)
(***************************************************************************)
Components == {"Home", "SimpleCanvas"}

(* A JSON value as the viewers use it: an array of documents or an object *)
JsonArray(docs) == [t |-> "array", docs |-> docs]
JsonObject == [t |-> "object", docs |-> <<>>]

(* One fetch of a call: not made, sent, arrived with a body, or rejected *)
NoFetch == [state |-> "none", status |-> 0, body |-> JsonArray(<<>>)]
SentFetch == [NoFetch EXCEPT !.state = "sent"]
RejectedFetch == [NoFetch EXCEPT !.state = "rejected"]

IdlePoll == [pc |-> "idle", all |-> NoFetch, recent |-> NoFetch]

(* useState initial values; applied is history: the number of the call     *)
(* whose response is displayed (0: none).                                  *)
InitialViewer(component) ==
    [component |-> component, isMounted |-> FALSE, issued |-> 0,
     pixels |-> JsonArray(<<>>), assignments |-> JsonArray(<<>>),
     error |-> "null", loading |-> TRUE, applied |-> 0]

(* The call of loadData / loadPixels up to its first await: Home clears    *)
(* error and sends both fetches, SimpleCanvas sends one.                   *)
loadData(v) ==
    /\ viewer' = [v EXCEPT
                     !.issued = @ + 1,
                     !.error = IF v.component = "Home" THEN "null" ELSE @]
    /\ polls' = [polls EXCEPT ![v.issued + 1] =
                     [pc |-> "fetch", all |-> SentFetch,
                      recent |-> IF v.component = "Home"
                                 THEN SentFetch ELSE NoFetch]]

(* useEffect on mount: let isMounted = true (cancelled = false), the first *)
(* call, setInterval.                                                      *)
ViewerMount ==
    /\ ~viewer.isMounted
    /\ viewer.issued = 0
    /\ loadData([viewer EXCEPT !.isMounted = TRUE])
    /\ UNCHANGED <<dbVars, handlerVars, gatewayVars, checkoutVars, pageVars,
                   readVars, seedVars, localVars>>

(* setInterval fires: the next call, whatever the state of earlier calls *)
IntervalTick ==
    /\ viewer.isMounted
    /\ viewer.issued < MaxPolls
    /\ loadData(viewer)
    /\ UNCHANGED <<dbVars, handlerVars, gatewayVars, checkoutVars, pageVars,
                   readVars, seedVars, localVars>>

(* The effect's cleanup: isMounted = false / cancelled = true,             *)
(* clearInterval. Calls already made go on.                                *)
ViewerUnmount ==
    /\ viewer.isMounted
    /\ viewer' = [viewer EXCEPT !.isMounted = FALSE]
    /\ UNCHANGED <<dbVars, handlerVars, gatewayVars, checkoutVars, pageVars,
                   readVars, seedVars, localVars, polls>>

(* The call whose fetch of a route the server answers next: the server     *)
(* model holds one request per route, so fetches are served in the order   *)
(* of their calls.                                                         *)
Awaits(i, route) ==
    /\ polls[i][route].state = "sent"
    /\ \A j \in PollIds : j < i => polls[j][route].state # "sent"

(* A fetch reaches the server. *)
FetchAll ==
    /\ \E i \in PollIds : Awaits(i, "all")
    /\ AllReceive

FetchRecent ==
    /\ \E i \in PollIds : Awaits(i, "recent")
    /\ RecentReceive

(* The body a response carries: the documents, or { error: ... } *)
ResponseBody(req) == IF req.status = 200 THEN JsonArray(req.docs) ELSE JsonObject

(* fetch(.../all) settles: with the server's response, or rejected when    *)
(* the connection fails.                                                   *)
PollAllSettles(i) ==
    /\ allReq.pc = "done"
    /\ Awaits(i, "all")
    /\ \E rejected \in BOOLEAN :
          polls' = [polls EXCEPT ![i].all =
                       IF rejected THEN RejectedFetch
                       ELSE [state |-> "arrived", status |-> allReq.status,
                             body |-> ResponseBody(allReq)]]
    /\ allReq' = IdleAll
    /\ gridLog' = {}
    /\ UNCHANGED <<dbVars, handlerVars, gatewayVars, checkoutVars, pageVars,
                   recentReq, seedVars, localVars, viewer>>

(* fetch(.../recent-assignments) settles. *)
PollRecentSettles(i) ==
    /\ recentReq.pc = "done"
    /\ Awaits(i, "recent")
    /\ \E rejected \in BOOLEAN :
          polls' = [polls EXCEPT ![i].recent =
                       IF rejected THEN RejectedFetch
                       ELSE [state |-> "arrived", status |-> recentReq.status,
                             body |-> ResponseBody(recentReq)]]
    /\ recentReq' = IdleRecent
    /\ UNCHANGED <<dbVars, handlerVars, gatewayVars, checkoutVars, pageVars,
                   allReq, gridLog, seedVars, localVars, viewer>>

(* catch: the error is shown unless the component has unmounted *)
CatchLoad(message) ==
    IF viewer.isMounted
    THEN [viewer EXCEPT !.error = message, !.loading = FALSE]
    ELSE viewer

(* Home.loadData after await Promise.all and the two res.json(): a         *)
(* rejected fetch goes to catch; otherwise, mounted, the bodies are        *)
(* displayed whatever their status (pixelsData || []).                     *)
HomeResume(i) ==
    IF polls[i].all.state = "rejected" \/ polls[i].recent.state = "rejected"
    THEN CatchLoad("Error loading canvas data from server.")
    ELSE IF ~viewer.isMounted THEN viewer
    ELSE [viewer EXCEPT !.pixels = polls[i].all.body,
                        !.assignments = polls[i].recent.body,
                        !.loading = FALSE,
                        !.applied = i]

(* SimpleCanvas.loadPixels after await fetch and res.json(): a rejected    *)
(* fetch or !res.ok goes to catch; otherwise, not cancelled, the body is   *)
(* displayed and error cleared.                                            *)
SimpleCanvasResume(i) ==
    IF polls[i].all.state = "rejected" \/ polls[i].all.status # 200
    THEN CatchLoad("Error loading pixels")
    ELSE IF ~viewer.isMounted THEN viewer
    ELSE [viewer EXCEPT !.pixels = polls[i].all.body,
                        !.error = "null",
                        !.loading = FALSE,
                        !.applied = i]

(* The call resumes after its awaits: Promise.all has every response, or   *)
(* one rejection.                                                          *)
PollResumes(i) ==
    /\ polls[i].pc = "fetch"
    /\ \/ polls[i].all.state = "rejected"
       \/ polls[i].recent.state = "rejected"
       \/ /\ polls[i].all.state = "arrived"
          /\ polls[i].recent.state \in {"arrived", "none"}
    /\ viewer' = IF viewer.component = "Home"
                 THEN HomeResume(i) ELSE SimpleCanvasResume(i)
    /\ polls' = [polls EXCEPT ![i].pc = "done"]
    /\ UNCHANGED <<dbVars, handlerVars, gatewayVars, checkoutVars, pageVars,
                   readVars, seedVars, localVars>>

(* No viewer is open. *)
InitViewer ==
    /\ viewer = InitialViewer("Home")
    /\ polls = [i \in PollIds |-> IdlePoll]

(***************************************************************************)
(* The system                                                              *)
(***************************************************************************)
SeededPixels ==
    [i \in 1..(canvasSize * canvasSize) |->
        [position |-> i - 1, color |-> Blank, canvas |-> 1]]

(* A Checkout session as create-checkout-session makes it for color c. *)
OpenSession(c) ==
    [color |-> c, unit_amount |-> getPriceForColor(Str(c)).n, status |-> "open"]

InitServer ==
    /\ pixels = SeededPixels
    /\ assignments = <<>>
    /\ clock = 0
    /\ reqs = [r \in ReqIds |-> IdleReq]
    /\ checkout = IdleCheckout

InitReads ==
    /\ allReq = IdleAll
    /\ gridLog = {}
    /\ recentReq = IdleRecent

(* The seed script has run once; no run is in progress. *)
InitSeeded ==
    /\ canvases = 1
    /\ uniquePosition = FALSE
    /\ seedRuns = [s \in SeedIds |-> IdleSeed]

InitLocal ==
    /\ localMounted = FALSE
    /\ localUrl = LocalPlainUrl
    /\ localPixels = createInitialPixels
    /\ localSelectedIndex = -1
    /\ localSelectedColor = Red
    /\ localMessage = "null"
    /\ localApplied = 0
    /\ localNav = "none"

InitPage ==
    /\ mounted = FALSE
    /\ url = PlainUrl
    /\ stage = "select"
    /\ result = "null"
    /\ error = "null"
    /\ selectedColor = Red
    /\ pageReq = 0

AssignStep(r) ==
    /\ \/ AssignCount(r)
       \/ AssignFind(r)
       \/ AssignSave(r)
       \/ AssignCreate(r)
       \/ AssignFails(r)
    /\ gridLog' = IF allReq.pc = "scan"
                  THEN gridLog \cup {GridState(pixels')} ELSE gridLog
    /\ UNCHANGED <<gatewayVars, checkoutVars, pageVars>>
    /\ UNCHANGED <<allReq, recentReq, seedVars, localVars, viewVars>>

ClockStep ==
    /\ Tick
    /\ UNCHANGED <<handlerVars, gatewayVars, checkoutVars, pageVars>>
    /\ UNCHANGED <<readVars, seedVars, localVars, viewVars>>

DirectBodies == {Str(c) : c \in Colors} \cup {Undefined}

(***************************************************************************)
(* Fulfilment: sessions are open at the gateway (the checkout flow below   *)
(* creates them); customers pay, the browser returns, callers post to      *)
(* assign.                                                                 *)
(***************************************************************************)
Init ==
    /\ InitServer
    /\ InitPage
    /\ stripeSessions \in [1..MaxSessions -> {OpenSession(c) : c \in Colors}]
    /\ InitReads
    /\ InitViewer
    /\ InitSeeded
    /\ InitLocal
    /\ localStorage = NoItem

Next ==
    \/ \E r \in ReqIds : AssignStep(r)
    \/ ClockStep
    \/ \E b \in DirectBodies : DirectAssign(b)
    \/ \E s \in Sessions : StripePay(s)
    \/ \E s \in Sessions : ReturnFromStripe(s)
    \/ \E c \in Colors : OpenTypedSuccessUrl(c)
    \/ PageAssignResponse
    \/ resetForAnotherPurchase

Spec == Init /\ [][Next]_vars

(* The event loop runs every handler that can continue, and the mounted    *)
(* page handles the response it awaits.                                    *)
FairSpec ==
    /\ Spec
    /\ \A r \in ReqIds : WF_vars(AssignStep(r))
    /\ WF_vars(PageAssignResponse)

(***************************************************************************)
(* Checkout: the purchase page and other callers create sessions.          *)
(***************************************************************************)
CheckoutColors ==
    { Red, Gold, <<"#","F","F","D","7","0","0">>,
      <<"#","0","0","F","F","F","F">>, <<"#","F","f","0","0","F","f">>,
      <<"#","1","2">>,
      <<"c","o","n","s","t","r","u","c","t","o","r">> }

CheckoutBodies ==
    {Str(c) : c \in CheckoutColors} \cup {Str(<<>>), Undefined, Null, NumberZero, NumberSeven}

InitCheckout ==
    /\ InitServer
    /\ InitPage
    /\ stripeSessions = <<>>
    /\ InitReads
    /\ InitViewer
    /\ InitSeeded
    /\ InitLocal
    /\ localStorage = NoItem

NextCheckout ==
    \/ \E b \in CheckoutBodies : DirectCheckout(b)
    \/ CheckoutResponseDropped
    \/ GatewayCreates
    \/ GatewayFails
    \/ OpenPitch
    \/ \E s \in Sessions : ReturnCanceled(s)
    \/ \E c \in CheckoutColors : SelectColor(c)
    \/ Continue
    \/ Back
    \/ handleCheckout
    \/ PageCheckoutResponse

CheckoutSpec == InitCheckout /\ [][NextCheckout]_vars

(***************************************************************************)
(* Reads: a server that has been running (MaxPrior Assignments are in the  *)
(* ledger) answers grid reads and activity reads while assign requests are *)
(* served. The order in which the storage returns the Pixel documents is   *)
(* not the code's to choose: the collection is in position order or in the *)
(* reverse of it.                                                          *)
(***************************************************************************)
Reverse(s) == [k \in 1..Len(s) |-> s[Len(s) + 1 - k]]

PriorLedger ==
    [i \in 1..MaxPrior |->
        [pixelId |-> 1, color |-> Red, createdAt |-> i - 1 - MaxPrior, session |-> 0]]

(* The grid after the Assignments of PriorLedger *)
PriorGrid(px) == [px EXCEPT ![1].color = Red]

ReadBodies == {Str(Gold)}

ReadCheckoutBodies == {Str(Gold), Undefined}

InitRead ==
    /\ pixels \in {PriorGrid(SeededPixels), PriorGrid(Reverse(SeededPixels))}
    /\ assignments = PriorLedger
    /\ clock = 0
    /\ reqs = [r \in ReqIds |-> IdleReq]
    /\ checkout = IdleCheckout
    /\ stripeSessions = <<>>
    /\ InitPage
    /\ InitReads
    /\ InitViewer
    /\ InitSeeded
    /\ InitLocal
    /\ localStorage = NoItem

NextRead ==
    \/ \E r \in ReqIds : AssignStep(r)
    \/ \E b \in ReadBodies : DirectAssign(b)
    \/ AllReceive
    \/ AllScan
    \/ AllRespond
    \/ AllFails
    \/ AllReturn
    \/ RecentReceive
    \/ RecentFind
    \/ RecentFails
    \/ RecentReturn

ReadSpec == InitRead /\ [][NextRead]_vars

(***************************************************************************)
(* The server: every route that touches the database or the gateway, on a  *)
(* collection in position order.                                           *)
(***************************************************************************)
InitServerRoutes ==
    /\ InitRead
    /\ pixels = PriorGrid(SeededPixels)

NextServerRoutes ==
    \/ NextRead
    \/ \E b \in ReadCheckoutBodies : DirectCheckout(b)
    \/ GatewayCreates
    \/ GatewayFails
    \/ CheckoutResponseDropped

ServerSpec == InitServerRoutes /\ [][NextServerRoutes]_vars

(***************************************************************************)
(* Seeding: the seed script is run, once or several times, on an empty     *)
(* database.                                                               *)
(***************************************************************************)
InitSeed ==
    /\ pixels = <<>>
    /\ canvases = 0
    /\ uniquePosition \in BOOLEAN
    /\ seedRuns = [s \in SeedIds |-> IdleSeed]
    /\ assignments = <<>>
    /\ clock = 0
    /\ reqs = [r \in ReqIds |-> IdleReq]
    /\ checkout = IdleCheckout
    /\ stripeSessions = <<>>
    /\ InitPage
    /\ InitReads
    /\ InitViewer
    /\ InitLocal
    /\ localStorage = NoItem

NextSeed == \E s \in SeedIds : SeedStep(s)

SeedSpec == InitSeed /\ [][NextSeed]_vars

(***************************************************************************)
(* The local pitch page in one browser.                                    *)
(***************************************************************************)
LocalIndexes == 0..(GRID_SIZE * GRID_SIZE - 1)

(* pixelIndex parameters nobody's checkout produced *)
TypedIndexes ==
    { <<"9","9">>, <<"-","1">>, <<"x">>, <<"1","x">>, <<" ","2">>, <<>> }

LocalUrls ==
    {LocalSuccessUrl(i, c) : i \in {0, GRID_SIZE * GRID_SIZE - 1}, c \in Colors}
        \cup {[LocalSuccessUrl(0, Red) EXCEPT !.pixelIndex = Str(s)] : s \in TypedIndexes}
        \cup {[LocalSuccessUrl(0, Red) EXCEPT !.pixelIndex = Null],
              [LocalSuccessUrl(0, Red) EXCEPT !.color = Null],
              [LocalSuccessUrl(0, Red) EXCEPT !.status = Null],
              LocalCancelUrl, LocalPlainUrl}

(* A grid an earlier version of the page saved *)
StaleItem == [i \in 0..0 |-> Null]

InitLocalPage ==
    /\ InitServer
    /\ InitPage
    /\ stripeSessions = <<>>
    /\ InitReads
    /\ InitViewer
    /\ InitSeeded
    /\ InitLocal
    /\ localStorage \in {NoItem, StaleItem}

NextLocal ==
    \/ \E u \in LocalUrls : LocalOpen(u)
    \/ LocalReload
    \/ \E i \in LocalIndexes : handlePixelClick(i)
    \/ \E c \in Colors : handleColorChange(c)
    \/ handlePreviewColor

LocalSpec == InitLocalPage /\ [][NextLocal]_vars

(***************************************************************************)
(* Live viewing: one viewer, Home or SimpleCanvas, polls the server while  *)
(* callers post to assign.                                                 *)
(***************************************************************************)
InitView ==
    /\ InitServer
    /\ stripeSessions = <<>>
    /\ InitPage
    /\ InitReads
    /\ InitSeeded
    /\ InitLocal
    /\ localStorage = NoItem
    /\ viewer \in {InitialViewer(c) : c \in Components}
    /\ polls = [i \in PollIds |-> IdlePoll]

(* One caller posts to assign while the viewer is open. *)
AssignOnce(body) ==
    /\ \A r \in ReqIds : reqs[r].pc = "idle"
    /\ DirectAssign(body)

NextView ==
    \/ \E r \in ReqIds : AssignStep(r)
    \/ \E b \in ReadBodies : AssignOnce(b)
    \/ ViewerMount
    \/ IntervalTick
    \/ ViewerUnmount
    \/ FetchAll
    \/ AllScan
    \/ AllRespond
    \/ AllFails
    \/ \E i \in PollIds : PollAllSettles(i)
    \/ FetchRecent
    \/ RecentFind
    \/ RecentFails
    \/ \E i \in PollIds : PollRecentSettles(i)
    \/ \E i \in PollIds : PollResumes(i)

ViewSpec == InitView /\ [][NextView]_vars

(***************************************************************************)
(* One browser tab on the purchase page: it opens /pitch by a link, a      *)
(* typed URL or the gateway's redirect, and loads a URL only when it has   *)
(* left the page.                                                          *)
(***************************************************************************)
VisitColors == {Gold, <<>>}

InitPurchase == InitCheckout

(* The tab, not on the page, arrives at it. *)
Visit(u) ==
    /\ ~mounted
    /\ PageLoad(u)

NextPurchase ==
    \/ Visit(PlainUrl)
    \/ Visit(CancelUrl)
    \/ \E c \in VisitColors : Visit(TypedSuccessUrl(c))
    \/ \E s \in Sessions : ~mounted /\ ReturnFromStripe(s)
    \/ \E r \in ReqIds : AssignStep(r)
    \/ PageAssignResponse
    \/ \E f \in FetchFailures : PageAssignFails(f)
    \/ resetForAnotherPurchase
    \/ Continue
    \/ Back
    \/ handleCheckout
    \/ GatewayCreates
    \/ GatewayFails
    \/ PageCheckoutResponse
    \/ \E s \in Sessions : StripePay(s)

PurchaseSpec == InitPurchase /\ [][NextPurchase]_vars

(* The event loop runs every handler that can continue, and the mounted    *)
(* page resumes when its fetch has settled.                                *)
FairPurchaseSpec ==
    /\ PurchaseSpec
    /\ \A r \in ReqIds : WF_vars(AssignStep(r))
    /\ WF_vars(PageAssignResponse)

(***************************************************************************)
(* Claims about pricing and checkout-session creation (CheckoutSpec)       *)
(***************************************************************************)
HexDigits == {"0","1","2","3","4","5","6","7","8","9",
              "a","b","c","d","e","f","A","B","C","D","E","F"}

(* "#rgb" or "#rrggbb" *)
SyntacticallyValidColor(x) ==
    /\ x.t = "string"
    /\ Len(x.v) \in {4, 7}
    /\ x.v[1] = "#"
    /\ \A i \in 2..Len(x.v) : x.v[i] \in HexDigits

(* The price table as the specification states it. *)
StatedPrice(x) ==
    IF x.t # "string" THEN 50
    ELSE IF toLowerCase(x.v) = Gold THEN 500
    ELSE IF toLowerCase(x.v) \in {Cyan, Magenta} THEN 200
    ELSE 50

(* C7: the price the handler computes for any color is 500 for gold, 200   *)
(* for cyan and magenta, and 50 for every other value, letter case         *)
(* ignored.                                                                *)
C7_PriceIsTotalAndCaseInsensitive ==
    checkout.pc = "stripe" => checkout.priceCents = Num(StatedPrice(checkout.body))

(* C8: the amount create-checkout-session sends to the gateway for a color *)
(* is the price the purchase page computes and shows for that color: for   *)
(* the call in flight, for the page's current quote, and for every session *)
(* the gateway holds.                                                      *)
C8_QuoteEqualsCharge ==
    /\ checkout.pc = "stripe" =>
           checkout.priceCents = ClientGetPriceForColor(checkout.body)
    /\ (checkout.pc = "stripe" /\ checkout.from = "page") =>
           checkout.priceCents = ClientGetPriceForColor(Str(selectedColor))
    /\ \A s \in 1..Len(stripeSessions) :
           Num(stripeSessions[s].unit_amount) =
               ClientGetPriceForColor(Str(stripeSessions[s].color))

(* C8 witness: the page checks out upper-case gold and 500 cents are sent. *)
C8_Witness ==
    /\ checkout.pc = "stripe"
    /\ checkout.from = "page"
    /\ checkout.body = Str(<<"#","F","F","D","7","0","0">>)
    /\ checkout.priceCents = Num(500)

(* C9: a requestedColor that is empty or not a syntactically valid color   *)
(* is answered 400 and never reaches the gateway.                          *)
C9_InvalidColorRejected ==
    (checkout.pc # "idle" /\ ~SyntacticallyValidColor(checkout.body)) =>
        (checkout.pc = "done" /\ checkout.status = 400)

(* C10: when the gateway call is made, a PaymentSession record in status   *)
(* OPEN with the requested color and the computed priceCents is persisted. *)
C10_SessionRecordedBeforeGateway ==
    checkout.pc = "stripe" =>
        \E p \in PaymentSessionRecords :
            /\ p.status = "OPEN"
            /\ p.requestedColor = checkout.body.v
            /\ p.priceCents = checkout.priceCents

(***************************************************************************)
(* Claims about fulfilment (Spec, FairSpec)                                *)
(***************************************************************************)
SessionIds  == 1..Len(stripeSessions)
Completed(s) == stripeSessions[s].status = "complete"

(* The ledger entries made for session s *)
AssignmentsOf(s) == {i \in 1..Len(assignments) : assignments[i].session = s}

(* The ledger entries that target the pixel with _id p *)
Targeting(p) == {i \in 1..Len(assignments) : assignments[i].pixelId = p}

Quiescent == \A r \in ReqIds : ~InFlight(r)
NoneFailed == \A r \in ReqIds : reqs[r].status # 500

(* The completion of s was delivered: the success page posted to assign *)
Delivered(s) == \E r \in ReqIds : reqs[r].pc # "idle" /\ reqs[r].session = s

(* C1: no two Assignments belong to the same payment session, and a        *)
(* completed session whose delivery was answered with success has exactly  *)
(* one.                                                                    *)
C1_ExactlyOnceFulfillment ==
    \A s \in SessionIds :
        /\ Cardinality(AssignmentsOf(s)) <= 1
        /\ (Completed(s) /\ \E r \in ReqIds :
                reqs[r].session = s /\ reqs[r].pc = "done" /\ reqs[r].status = 200)
              => Cardinality(AssignmentsOf(s)) = 1

(* C2: once a session has its Assignment, a further delivery of its        *)
(* completion adds no Assignment for it and writes no cell.                *)
C2_IdempotentReplay ==
    [][\A s \in SessionIds :
          AssignmentsOf(s) # {} =>
              /\ AssignmentsOf(s)' = AssignmentsOf(s)
              /\ \A r \in ReqIds :
                    (reqs[r].session = s /\ reqs[r].pc = "save"
                        /\ reqs'[r].pc = "create") => pixels' = pixels]_vars

(* C3: every Assignment, and every recolored cell, comes from a session    *)
(* the gateway reports as completed.                                       *)
C3_ForgedSuccessHarmless ==
    /\ \A i \in 1..Len(assignments) :
          /\ assignments[i].session \in SessionIds
          /\ Completed(assignments[i].session)
    /\ \A p \in 1..Len(pixels) :
          pixels[p].color # Blank =>
              \E s \in SessionIds :
                  Completed(s) /\ stripeSessions[s].color = pixels[p].color

(* Every request came from the success page of a session, one per session *)
OnePerSession ==
    \A r \in ReqIds :
        reqs[r].pc # "idle" =>
            /\ reqs[r].session \in SessionIds
            /\ \A q \in ReqIds \ {r} :
                  reqs[q].pc # "idle" => reqs[q].session # reqs[r].session

(* C4: with no assign operation in flight (none failed, each for another   *)
(* completed session), each cell holds the color of an Assignment with the *)
(* latest createdAt among those targeting it, or the blank default when    *)
(* none targets it.                                                        *)
C4_GridLedgerConsistency ==
    (Quiescent /\ NoneFailed /\ OnePerSession) =>
        \A p \in 1..Len(pixels) :
            IF Targeting(p) = {}
            THEN pixels[p].color = Blank
            ELSE \E i \in Targeting(p) :
                    /\ \A j \in Targeting(p) :
                          assignments[j].createdAt <= assignments[i].createdAt
                    /\ pixels[p].color = assignments[i].color

(* C5: with no assign operation in flight, no cell is recolored without an *)
(* Assignment recording that color for it.                                 *)
C5_AllOrNothing ==
    Quiescent =>
        \A p \in 1..Len(pixels) :
            pixels[p].color # Blank =>
                \E i \in Targeting(p) : assignments[i].color = pixels[p].color

(* C6: a completed session whose completion was delivered eventually has   *)
(* an Assignment.                                                          *)
C6_EventuallyFulfilled ==
    \A s \in Sessions :
        (s \in SessionIds /\ Completed(s) /\ Delivered(s))
            ~> (AssignmentsOf(s) # {})

(***************************************************************************)
(* Claims about gateway failure, cell selection, the frame of an           *)
(* assignment and the ledger                                               *)
(***************************************************************************)
(* The step in which stripe.checkout.sessions.create throws *)
GatewayCallFails ==
    /\ checkout.pc = "stripe"
    /\ checkout'.pc = "done"
    /\ stripeSessions' = stripeSessions

(* C11: when the gateway call of create-checkout-session fails, the caller *)
(* is answered with a 5xx status (an invalid color is answered 400), the   *)
(* PaymentSession of the attempt is still recorded as OPEN, no Assignment  *)
(* is created and no cell is changed.                                      *)
C11_GatewayFailureSurfaced ==
    [][GatewayCallFails =>
          /\ checkout'.status \in 500..599
          /\ \E p \in PaymentSessionRecords :
                p.status = "OPEN" /\ p.requestedColor = checkout.body.v
          /\ assignments' = assignments
          /\ pixels' = pixels]_vars

(* The positions of the grid *)
Positions == 0..(canvasSize * canvasSize - 1)

(* The cell that request r selected *)
Selected(r) == reqs[r].pixel

(* C12: whenever a request is about to select its cell on a non-empty      *)
(* grid, every position in [0, N*N) can be the one selected, whether its   *)
(* cell is blank or colored; the cell a request has selected is never      *)
(* outside [0, N*N); and the selected cell takes the request's color       *)
(* whatever color it held.                                                 *)
C12_SelectionOverFullPopulation ==
    /\ [](\A r \in ReqIds :
            /\ (reqs[r].pc = "count" /\ Len(pixels) > 0) =>
                  \A p \in Positions :
                      ENABLED (/\ AssignCount(r)
                               /\ reqs'[r].pc = "find"
                               /\ pixels[reqs'[r].randomIndex + 1].position = p)
            /\ reqs[r].pc = "find" =>
                  reqs[r].randomIndex \in 0..(canvasSize * canvasSize - 1)
            /\ reqs[r].pc \in {"save", "create"} =>
                  /\ Selected(r) = reqs[r].randomIndex + 1
                  /\ Selected(r) \in 1..Len(pixels)
                  /\ pixels[Selected(r)].position \in Positions)
    /\ [][\A r \in ReqIds :
            (reqs[r].pc = "save" /\ reqs'[r].pc = "create") =>
                pixels'[Selected(r)].color = reqs[r].body.v]_vars

(* C12 witness: a request has selected a cell that an earlier assignment   *)
(* colored, and the cell now holds the later request's color.              *)
C12_Witness ==
    \E r \in ReqIds :
        /\ reqs[r].pc = "create"
        /\ \E i \in Targeting(Selected(r)) :
              assignments[i].color # reqs[r].body.v
        /\ pixels[Selected(r)].color = reqs[r].body.v

(* C13: a step of an assign operation changes the color of at most one     *)
(* cell, the one the request selected, which takes the request's color;    *)
(* no step changes a cell's position or the number of cells, which stays   *)
(* N*N with one cell for each position; and a cell that no Assignment      *)
(* targets and no request has selected is blank once nothing is in flight  *)
(* and nothing failed.                                                     *)
C13_AssignChangesOneCell ==
    /\ [](/\ Len(pixels) = canvasSize * canvasSize
          /\ \A p \in Positions :
                Cardinality({i \in 1..Len(pixels) : pixels[i].position = p}) = 1
          /\ (Quiescent /\ NoneFailed) =>
                \A i \in 1..Len(pixels) :
                    Targeting(i) = {} => pixels[i].color = Blank)
    /\ [][/\ Len(pixels') = Len(pixels)
          /\ \A i \in 1..Len(pixels) :
                /\ pixels'[i].position = pixels[i].position
                /\ pixels'[i].color # pixels[i].color =>
                      /\ \E r \in ReqIds :
                            /\ reqs[r].pc = "save"
                            /\ reqs'[r].pc = "create"
                            /\ Selected(r) = i
                            /\ pixels'[i].color = reqs[r].body.v
                      /\ \A j \in 1..Len(pixels) :
                            j # i => pixels'[j] = pixels[j]]_vars

(* C13 witness (scenario A): a grid of four cells, two assignments with    *)
(* different colors targeting positions 1 and 3; positions 0 and 2 are     *)
(* blank.                                                                  *)
C13_Witness ==
    /\ Quiescent
    /\ Len(assignments) = 2
    /\ \E i, j \in 1..Len(pixels) :
          /\ pixels[i].position = 1 /\ pixels[j].position = 3
          /\ assignments[1].pixelId = i /\ assignments[2].pixelId = j
          /\ pixels[i].color = assignments[1].color
          /\ pixels[j].color = assignments[2].color
          /\ pixels[i].color # pixels[j].color
          /\ \A k \in 1..Len(pixels) :
                k \notin {i, j} => pixels[k].color = Blank

(* C14: no step changes or removes an Assignment that exists; the ledger   *)
(* only grows.                                                             *)
C14_LedgerAppendOnly ==
    [][/\ Len(assignments') >= Len(assignments)
       /\ \A i \in 1..Len(assignments) :
             assignments'[i] = assignments[i]]_vars

(* C14 witness: a second Assignment was appended after the first, for the  *)
(* same cell.                                                              *)
C14_Witness ==
    /\ Len(assignments) = 2
    /\ assignments[1].pixelId = assignments[2].pixelId
    /\ assignments[1].color # assignments[2].color

(***************************************************************************)
(* Claims about the read endpoints (ReadSpec, ServerSpec)                  *)
(***************************************************************************)
AllAnswered == allReq.pc = "done" /\ allReq.status = 200

(* C15: a successful response of GET /all holds every Pixel document       *)
(* exactly once, in strictly ascending order of position.                  *)
C15_AllCellsOnceInPositionOrder ==
    AllAnswered =>
        /\ Len(allReq.docs) = Len(pixels)
        /\ \A k \in 1..Len(pixels) :
              Cardinality({j \in 1..Len(allReq.docs) : allReq.docs[j].id = k}) = 1
        /\ \A j \in 1..(Len(allReq.docs) - 1) :
              allReq.docs[j].position < allReq.docs[j + 1].position

(* C15 witness: the read answered on a collection stored in the reverse of *)
(* position order.                                                         *)
C15_Witness ==
    /\ AllAnswered
    /\ pixels[1].position > pixels[2].position

(* C16: the cells of a successful response of GET /all are the grid as it  *)
(* was at one instant between the start of the read and its response.      *)
C16_GridReadIsSnapshot ==
    AllAnswered => GridState(allReq.docs) \in gridLog

RecentAnswered == recentReq.pc = "done" /\ recentReq.status = 200

(* C17: a successful response of GET /recent-assignments holds at most 10  *)
(* Assignments of the ledger as it was when the query ran, each once, all  *)
(* of them when the ledger has no more than 10, in descending order of     *)
(* createdAt, and no Assignment left out has a later createdAt than one    *)
(* returned.                                                               *)
C17_RecentAreTheLatestTen ==
    RecentAnswered =>
        LET R == recentReq.docs
            n == recentReq.at
            returned == {R[k].id : k \in 1..Len(R)}
        IN  /\ Len(R) <= RecentLimit
            /\ Len(R) = IF n < RecentLimit THEN n ELSE RecentLimit
            /\ \A k \in 1..Len(R) :
                  R[k].id \in 1..n /\ R[k] = AssignmentDoc(R[k].id)
            /\ \A j, k \in 1..Len(R) :
                  j < k => (R[j].id # R[k].id /\ R[j].createdAt >= R[k].createdAt)
            /\ \A i \in (1..n) \ returned :
                  \A k \in 1..Len(R) : assignments[i].createdAt <= R[k].createdAt

(* C17 witness: the ledger held more than 10 Assignments, two of the       *)
(* returned ones with equal createdAt.                                     *)
C17_Witness ==
    /\ RecentAnswered
    /\ recentReq.at > RecentLimit
    /\ Len(recentReq.docs) = RecentLimit
    /\ recentReq.docs[1].createdAt = recentReq.docs[2].createdAt

(* C18: a step of the grid read, of the activity read or of                *)
(* create-checkout-session changes no cell and no Assignment, whether the  *)
(* operation succeeds or fails; a step that changes a cell or the ledger   *)
(* is the save or the create of an assign request.                         *)
C18_OnlyAssignMutates ==
    [][/\ (\/ allReq' # allReq
           \/ recentReq' # recentReq
           \/ checkout' # checkout
           \/ stripeSessions' # stripeSessions)
          => (pixels' = pixels /\ assignments' = assignments)
       /\ (pixels' # pixels \/ assignments' # assignments)
          => \E r \in ReqIds :
                /\ reqs[r].pc \in {"save", "create"}
                /\ reqs'[r] # reqs[r]]_vars

(* C18 witness: after an assignment, a grid read and a checkout have       *)
(* succeeded and an activity read has failed.                              *)
C18_Witness ==
    /\ Len(assignments) > MaxPrior
    /\ AllAnswered
    /\ recentReq.pc = "done" /\ recentReq.status = 500
    /\ checkout.pc = "done" /\ checkout.status = 200

(***************************************************************************)
(* Claims about seeding (SeedSpec)                                         *)
(***************************************************************************)
SeedSettled ==
    /\ \A s \in SeedIds : ~SeedInFlight(s)
    /\ \E s \in SeedIds : seedRuns[s].pc = "done" /\ seedRuns[s].exit = 0

(* C19: once no run of the seed script is in progress and one has exited   *)
(* with 0, there is exactly one Canvas with exactly N*N cells, one for     *)
(* each position in [0, N*N), each blank; and a run that counts cells      *)
(* already present adds none.                                              *)
C19_SeedOnceOnly ==
    /\ [](SeedSettled =>
            /\ canvases = 1
            /\ Len(pixels) = canvasSize * canvasSize
            /\ \A p \in Positions :
                  Cardinality({k \in 1..Len(pixels) : pixels[k].position = p}) = 1
            /\ \A k \in 1..Len(pixels) :
                  pixels[k].color = Blank /\ pixels[k].canvas = 1)
    /\ [][\A s \in SeedIds :
            (seedRuns[s].pc = "count" /\ seedRuns'[s].pc = "done"
                /\ seedRuns'[s].exit = 0) => pixels' = pixels]_vars

(***************************************************************************)
(* Claims about the local pitch page (LocalSpec)                           *)
(***************************************************************************)
(* The URL carries a success redirect the page would handle *)
CarriesRedirect(u) ==
    /\ LocalParam(u.status) = Str(StatusSuccess)
    /\ ~Falsy(LocalParam(u.pixelIndex))
    /\ ~Falsy(LocalParam(u.color))

(* C20: the grid of the local pitch page has exactly the indexes           *)
(* 0..GRID_SIZE*GRID_SIZE-1 (no other index is ever set); between two      *)
(* navigations a redirect is applied at most once; the URL of the mounted  *)
(* page carries no success redirect; and reloading the page applies no     *)
(* update.                                                                 *)
C20_RedirectAppliedOnce ==
    /\ DOMAIN localPixels = LocalIndexes
    /\ localApplied <= 1
    /\ localMounted =>
          /\ ~CarriesRedirect(localUrl)
          /\ ~ENABLED (LocalReload /\ localApplied' > localApplied)

(* C20 witness: the page was reloaded after it applied a redirect, and the *)
(* cell still holds the color.                                             *)
C20_Witness ==
    /\ localNav = "reload"
    /\ localApplied = 1
    /\ \E i \in LocalIndexes : localPixels[i] # Null

(***************************************************************************)
(* Claims about the assign response (Spec)                                 *)
(***************************************************************************)
AssignAnswered(r) == reqs[r].pc = "done" /\ reqs[r].status = 200

(* C23: the body of every successful assign response has a position in     *)
(* [0, N*N), coordinates with 0 <= x < N, 0 <= y < N and                   *)
(* position = y*N + x, the position of the cell the request selected, and  *)
(* the requested color; and that color is the one the request's save       *)
(* stored in that cell.                                                    *)
C23_ResponseDescribesCell ==
    /\ [](\A r \in ReqIds :
            AssignAnswered(r) =>
                LET b == reqs[r].response
                IN  /\ b.position \in Positions
                    /\ b.x \in 0..(canvasSize - 1)
                    /\ b.y \in 0..(canvasSize - 1)
                    /\ b.position = b.y * canvasSize + b.x
                    /\ b.id = Selected(r)
                    /\ b.position = pixels[Selected(r)].position
                    /\ b.color = reqs[r].body.v)
    /\ [][\A r \in ReqIds :
            /\ (reqs[r].pc = "save" /\ reqs'[r].pc = "create") =>
                  pixels'[Selected(r)].color = reqs[r].body.v
            /\ (reqs[r].pc = "create" /\ AssignAnswered(r)') =>
                  Selected(r)' = Selected(r)]_vars

(* C23 witness: a response for a cell off the diagonal of the grid. *)
C23_Witness ==
    \E r \in ReqIds :
        /\ AssignAnswered(r)
        /\ reqs[r].response.x # reqs[r].response.y
        /\ reqs[r].response.position > 0

(* C23 as stated: the color the selected cell holds when the response is   *)
(* sent is the returned color.                                             *)
C23_CellHoldsReturnedColor ==
    [][\A r \in ReqIds :
        (reqs[r].pc = "create" /\ AssignAnswered(r)') =>
            pixels'[Selected(r)].color = reqs'[r].response.color]_vars

(***************************************************************************)
(* Claims about the live viewers (ViewSpec)                                *)
(***************************************************************************)
Displayed == <<viewer.pixels, viewer.assignments, viewer.applied>>

(* C21: in both viewers the response of an earlier call is never displayed *)
(* over the response of a later call, and nothing is displayed after the   *)
(* component has unmounted.                                                *)
C21_DisplayNeverRegresses ==
    [][/\ viewer'.applied >= viewer.applied
       /\ ~viewer.isMounted => Displayed' = Displayed]_vars

(* The part of C21 the flags guard: an unmounted viewer displays nothing   *)
(* new, neither data nor an error.                                         *)
NothingAppliedAfterUnmount ==
    [][(~viewer.isMounted /\ viewer.issued > 0) =>
          /\ Displayed' = Displayed
          /\ viewer'.error = viewer.error
          /\ viewer'.loading = viewer.loading]_vars

(* A call resumes with its responses after the component has unmounted. *)
ResumesAfterUnmount ==
    \E i \in PollIds :
        /\ ~viewer.isMounted
        /\ polls[i].pc = "done"
        /\ polls[i].all.state = "arrived"
        /\ polls[i].all.status = 200
        /\ viewer.applied < i

(* The viewer, still mounted, displays the grid of its first call, read    *)
(* before an assign, after it displayed the grid of its second call, read  *)
(* after that assign.                                                      *)
StaleGridDisplayed(component) ==
    /\ viewer.component = component
    /\ viewer.isMounted
    /\ polls[1].pc = "done" /\ polls[2].pc = "done"
    /\ polls[1].all.status = 200 /\ polls[2].all.status = 200
    /\ polls[1].recent.state # "rejected" /\ polls[2].recent.state # "rejected"
    /\ viewer.applied = 1
    /\ viewer.pixels = polls[1].all.body
    /\ GridState(polls[1].all.body.docs) # GridState(pixels)
    /\ GridState(polls[2].all.body.docs) = GridState(pixels)

StaleGridInHome == StaleGridDisplayed("Home")

StaleGridInSimpleCanvas == StaleGridDisplayed("SimpleCanvas")

(***************************************************************************)
(* Claims about the purchase page's stages (FairPurchaseSpec)              *)
(***************************************************************************)
(* C22: stage "processing" is entered only by a page load whose URL has    *)
(* success=true and a color; from "processing" the stage eventually        *)
(* becomes "done", whatever the outcome of the assign request; and the     *)
(* stage leaves "done" only in resetForAnotherPurchase, which sets stage   *)
(* "select" and clears result and error.                                   *)
C22_StageMachineFinishes ==
    /\ [][/\ (stage' = "processing" /\ (stage # "processing" \/ ~mounted)) =>
                /\ ~mounted /\ mounted'
                /\ url'.success
                /\ searchParamsGet(url'.color) # <<>>
          /\ (stage = "processing" /\ stage' # "processing") =>
                /\ stage' = "done"
                /\ result' # "null"
          /\ (stage = "done" /\ mounted /\ stage' # "done") =>
                /\ resetForAnotherPurchase
                /\ stage' = "select"
                /\ result' = "null"
                /\ error' = "null"]_vars
    /\ (mounted /\ stage = "processing") ~> (stage = "done")

(* C22 witnesses: the page reached "done" in each of the four ways, and    *)
(* was reset from "done".                                                  *)
C22_Witness ==
    /\ mounted
    /\ stage = "select"
    /\ result = "null"
    /\ url = PlainUrl
    /\ \E r \in ReqIds : reqs[r].pc = "done"

DoneByFetchFailure == mounted /\ stage = "done" /\ result \in FetchFailures

DoneByErrorBody == mounted /\ stage = "done" /\ result = "error"

DoneByPixel == mounted /\ stage = "done" /\ result = "pixel"

====
